---- MODULE Spec2Model ----
(***************************************************************************)
(* The LACT daemon (daemon/src/lib.rs): the reconciliation of discovered   *)
(* GPUs against the configuration store (Daemon::load_gpu_controllers),    *)
(* the start of the process (Daemon::new), the accept loop (Daemon::listen)*)
(* and the dispatch of one request per connection                          *)
(* (Daemon::handle_connection).                                            *)
(*                                                                         *)
(* GpuController, GpuConfig and Config live in gpu_controller.rs and       *)
(* config.rs, which are not part of the sources at hand: their operations  *)
(* are modelled from the specification's description (sections 3, 4.2 and  *)
(* 4.4) and are marked as such in the model map.                           *)
(***************************************************************************)
EXTENDS Integers, Sequences, FiniteSets, TLC

\* ------------------------------------------------------------------ bounds

\* random() yields a u32; the model draws handles from 1..MaxHandle.
MaxHandle == 2

\* SetPowerCap requests carry a cap in 0..MaxCap.
MaxCap == 3

\* At most MaxClients connections wait to be accepted.
MaxClients == 2

\* The hardware-reported power cap range [min, max] of every modelled card.
PowerCapMin == 1
PowerCapMax == 2

\* The Device Identifiers of the physical cards that may sit in /sys/class/drm.
Devices == {"gpuA", "gpuB"}

Handles == 1 .. MaxHandle

\* ------------------------------------------------------------------- maps

\* HashMap<u32, V> as a function whose domain is the set of keys.
EmptyMap == [h \in {} |-> 0]

\* HashMap::insert(k, v): the value of an existing key is replaced.
Insert(m, k, v) == [h \in (DOMAIN m) \cup {k} |-> IF h = k THEN v ELSE m[h]]

RECURSIVE Perms(_)
\* The orders in which fs::read_dir may yield the entries of a directory.
Perms(S) ==
    IF S = {} THEN {<<>>}
    ELSE UNION {{<<d>> \o p : p \in Perms(S \ {d})} : d \in S}

\* ------------------------------------------------- GpuConfig, GpuController

PowerProfiles == {"Auto", "High"}
FanCurves == {"default", "custom"}

\* GpuConfig::new(): the per-device settings of a card seen for the first time.
DefaultGpuConfig ==
    [fan_control_enabled |-> FALSE,
     fan_curve           |-> "default",
     power_cap           |-> PowerCapMax,
     power_profile       |-> "Auto",
     gpu_max_clock       |-> 0,
     vram_max_clock      |-> 0]

\* GpuController::new(path, GpuConfig::new(), pci_db): no fan-control loop yet.
NewController(dev) ==
    [id |-> dev, config |-> DefaultGpuConfig, fan_running |-> FALSE]

\* controller.load_config(gpu_config): the persisted settings become the
\* controller's, and fan control runs iff the settings enable it.
LoadConfig(c, cfg) ==
    [c EXCEPT !.config = cfg, !.fan_running = cfg.fan_control_enabled]

\* StoreEntry with a bug: the settings stored are not the controller's.
StoreEntry_Stale(c) == [id |-> c.id, cfg |-> DefaultGpuConfig]

\* controller.get_identifier(), controller.get_config()
StoreEntry(c) == [id |-> c.id, cfg |-> c.config]

\* The outcomes of one controller operation: [ok, c] with c the controller
\* afterwards. A rejected or failed operation leaves the controller as it was.
Failed(c) == [ok |-> FALSE, c |-> c]
Done(c) == [ok |-> TRUE, c |-> c]

start_fan_control(c) ==
    {Done([c EXCEPT !.fan_running = TRUE, !.config.fan_control_enabled = TRUE]),
     Failed(c)}

stop_fan_control(c) ==
    {Done([c EXCEPT !.fan_running = FALSE, !.config.fan_control_enabled = FALSE]),
     Failed(c)}

\* A curve without points is rejected.
set_fan_curve(c, curve) ==
    IF curve \in FanCurves
    THEN {Done([c EXCEPT !.config.fan_curve = curve])}
    ELSE {Failed(c)}

\* A cap outside the hardware-reported [min, max] is rejected; the write of
\* an accepted cap may fail at the attribute file.
set_power_cap(c, cap) ==
    IF cap >= PowerCapMin /\ cap <= PowerCapMax
    THEN {Done([c EXCEPT !.config.power_cap = cap]), Failed(c)}
    ELSE {Failed(c)}

\* A profile the hardware does not support is rejected.
set_power_profile(c, profile) ==
    IF profile \in PowerProfiles
    THEN {Done([c EXCEPT !.config.power_profile = profile]), Failed(c)}
    ELSE {Failed(c)}

\* Staging: the edit is kept in the settings, nothing is written to hardware.
set_gpu_max_power_state(c, clock) ==
    {Done([c EXCEPT !.config.gpu_max_clock = clock]), Failed(c)}

set_vram_max_clockspeed(c, clock) ==
    {Done([c EXCEPT !.config.vram_max_clock = clock]), Failed(c)}

\* Commit applies the staged edits and clears them; reset discards them.
commit_gpu_power_states(c) ==
    {Done([c EXCEPT !.config.gpu_max_clock = 0, !.config.vram_max_clock = 0]),
     Failed(c)}

reset_gpu_power_states(c) ==
    {Done([c EXCEPT !.config.gpu_max_clock = 0, !.config.vram_max_clock = 0]),
     Failed(c)}

\* controller.<op>(value) for the operation a mutating handler calls.
ControllerOp(c, op, value) ==
    CASE op = "start_fan_control"       -> start_fan_control(c)
      [] op = "stop_fan_control"        -> stop_fan_control(c)
      [] op = "set_fan_curve"           -> set_fan_curve(c, value)
      [] op = "set_power_cap"           -> set_power_cap(c, value)
      [] op = "set_power_profile"       -> set_power_profile(c, value)
      [] op = "set_gpu_max_power_state" -> set_gpu_max_power_state(c, value)
      [] op = "set_vram_max_clockspeed" -> set_vram_max_clockspeed(c, value)
      [] op = "commit_gpu_power_states" -> commit_gpu_power_states(c)
      [] op = "reset_gpu_power_states"  -> reset_gpu_power_states(c)

\* ---------------------------------------------------- load_gpu_controllers

\* LoadEntry with a bug: a new card is registered without a store entry.
LoadEntry_NoStore(st, dev) ==
    LET matches == {id \in DOMAIN st.config.gpu_configs :
                        st.config.gpu_configs[id].id = dev}
    IN  IF matches # {}
        THEN {[config |-> st.config,
               ctrls  |-> Insert(st.ctrls, id,
                                 LoadConfig(NewController(dev),
                                            st.config.gpu_configs[id].cfg))]
                : id \in matches}
        ELSE {[config |-> st.config,
               ctrls  |-> Insert(st.ctrls, id, NewController(dev))]
                : id \in Handles}

\* One iteration of the 'entries loop for the card `dev`: st is
\* [config, ctrls], the store and the controller map built so far. The search
\* of config.gpu_configs follows the HashMap's iteration order, so any entry
\* with the card's identifier may be the first match; an unmatched card gets
\* a handle drawn by random().
LoadEntry(st, dev) ==
    LET matches == {id \in DOMAIN st.config.gpu_configs :
                        st.config.gpu_configs[id].id = dev}
    IN  IF matches # {}
        THEN {[config |-> st.config,
               ctrls  |-> Insert(st.ctrls, id,
                                 LoadConfig(NewController(dev),
                                            st.config.gpu_configs[id].cfg))]
                : id \in matches}
        ELSE {[config |-> [st.config EXCEPT !.gpu_configs =
                              Insert(@, id, StoreEntry(NewController(dev)))],
               ctrls  |-> Insert(st.ctrls, id, NewController(dev))]
                : id \in Handles}

RECURSIVE LoadEntries(_, _)
LoadEntries(sts, entries) ==
    IF entries = <<>> THEN sts
    ELSE LoadEntries(UNION {LoadEntry(st, Head(entries)) : st \in sts},
                     Tail(entries))

\* Every result [config, ctrls] of Daemon::load_gpu_controllers(&mut config)
\* when /sys/class/drm holds the cards `cards`.
load_gpu_controllers(config, cards) ==
    UNION {LoadEntries({[config |-> config, ctrls |-> EmptyMap]}, entries)
            : entries \in Perms(cards)}

\* The handle under which the card `dev` is registered in a controller map
\* (0: not registered).
HandleOf(ctrls, dev) ==
    IF \E h \in DOMAIN ctrls : ctrls[h].id = dev
    THEN CHOOSE h \in DOMAIN ctrls : ctrls[h].id = dev
    ELSE 0

\* ------------------------------------------------------------ daemon state

VARIABLES
    pc,               \* where the process is: Off, Listening, Reading, Responding,
                      \* ShuttingDown, Exited, Returned, Panicked
    panic,            \* the call whose unwrap/expect ended the process, if any
    unprivileged,     \* the argument of Daemon::new of the running process
    sock,             \* whether SOCK_PATH exists in the file system
    disk,             \* /etc/lact.json: [exists, gpu_configs]
    config,           \* Daemon.config
    gpu_controllers,  \* Daemon.gpu_controllers
    present,          \* the cards in /sys/class/drm
    orphaned,         \* cards whose fan-control loop outlived its controller
    req,              \* the action decoded from the accepted connection
    response,         \* the handler's result, to be written to the stream
    saved,            \* whether config.save() succeeded since the last accept
    ops,              \* <<handle, operation>> invoked on controllers since then
    written,          \* responses written on the last accepted connection
    assigned,         \* history: the handle each card was first registered under
    first_run,        \* history: the input and result of a first reconciliation
    conn              \* the clients of the socket: [waiting, eof]

vars == <<pc, panic, unprivileged, sock, disk, config, gpu_controllers, present,
          orphaned, req, response, saved, ops, written, assigned, first_run, conn>>

Terminated == {"Exited", "Returned", "Panicked"}

\* Config::new(&config_path): an empty store.
NewConfig == [gpu_configs |-> EmptyMap]

\* What config.save() leaves in the file.
SaveFile(c) == [exists |-> TRUE, gpu_configs |-> c.gpu_configs]

\* Config::read_from_file(&config_path), or Config::new when it fails.
ReadFile == IF disk.exists THEN [gpu_configs |-> disk.gpu_configs] ELSE NewConfig

Request(a, i, arg) == [a |-> a, i |-> i, arg |-> arg]
NoRequest == Request("None", 0, 0)

\* The handle a card is first registered under is remembered (0: none yet).
Assign(ctrls) ==
    [d \in Devices |-> IF assigned[d] = 0 THEN HandleOf(ctrls, d) ELSE assigned[d]]

NoRun == [input |-> NewConfig, config |-> NewConfig, ctrls |-> EmptyMap]

\* No client has connected; `waiting` counts the clients that have connected
\* and are not accepted yet, `eof` tells whether the client of the accepted
\* connection has closed its sending side.
NoConn == [waiting |-> 0, eof |-> FALSE]

Init ==
    /\ pc = "Off"
    /\ panic = "none"
    /\ unprivileged = FALSE
    /\ sock = FALSE
    /\ disk = [exists |-> FALSE, gpu_configs |-> EmptyMap]
    /\ config = NewConfig
    /\ gpu_controllers = EmptyMap
    /\ present = {}
    /\ orphaned = {}
    /\ req = NoRequest
    /\ response = "None"
    /\ saved = FALSE
    /\ ops = {}
    /\ written = 0
    /\ assigned = [d \in Devices |-> 0]
    /\ first_run = NoRun
    /\ conn = NoConn

\* The process ends (std::process::exit, a panic, or listen returning): what
\* it held in memory, its threads and its open connection are gone; the
\* files stay.
Ends(how, call) ==
    /\ pc' = how
    /\ panic' = call
    /\ unprivileged' = FALSE
    /\ config' = NewConfig
    /\ gpu_controllers' = EmptyMap
    /\ orphaned' = {}
    /\ req' = NoRequest
    /\ response' = "None"
    /\ saved' = FALSE
    /\ ops' = {}
    /\ written' = 0

\* Daemon::new(unprivileged): bind the socket, read or create the store,
\* reconcile against the cards that /sys/class/drm holds at this start, save
\* unless unprivileged.
Startup(unpriv, cards) ==
    /\ pc \in {"Off"} \cup Terminated
    /\ sock' = TRUE
    /\ present' = cards
    /\ \E out \in load_gpu_controllers(IF unpriv THEN NewConfig ELSE ReadFile,
                                       cards) :
        \/ /\ pc' = "Listening"
           /\ panic' = "none"
           /\ unprivileged' = unpriv
           /\ config' = out.config
           /\ gpu_controllers' = out.ctrls
           /\ disk' = IF unpriv THEN disk ELSE SaveFile(out.config)
           /\ saved' = ~unpriv
           /\ orphaned' = {}
           /\ req' = NoRequest
           /\ response' = "None"
           /\ ops' = {}
           /\ written' = 0
        \/ /\ ~unpriv
           /\ Ends("Panicked", "save")
           /\ UNCHANGED disk
    /\ UNCHANGED <<first_run, conn>>

DaemonNew(unpriv, cards) ==
    /\ Startup(unpriv, cards)
    /\ UNCHANGED assigned

\* Daemon::listen: listener.incoming() yields a stream, and handle_connection
\* starts reading it to its end.
Incoming ==
    /\ pc = "Listening"
    /\ pc' = "Reading"
    /\ written' = 0
    /\ saved' = FALSE
    /\ UNCHANGED <<panic, unprivileged, sock, disk, config, gpu_controllers,
                   present, orphaned, req, response, ops, assigned, first_run>>

\* Daemon::listen, with the clients of the socket left out of the picture.
Accept ==
    /\ Incoming
    /\ UNCHANGED conn

\* Daemon::listen: listener.incoming() yields an error; the loop breaks and
\* listen returns.
AcceptError ==
    /\ pc = "Listening"
    /\ Ends("Returned", "none")
    /\ UNCHANGED <<sock, disk, present, assigned, first_run, conn>>

\* stream.read_to_end(&mut buffer).unwrap() on a failed read.
ReadError ==
    /\ pc = "Reading"
    /\ Ends("Panicked", "read_to_end")
    /\ UNCHANGED <<sock, disk, present, assigned, first_run, conn>>

\* DecodeFailure with a bug: an error is written back on the connection.
DecodeFailure_Replying ==
    /\ pc = "Reading"
    /\ pc' = "Listening"
    /\ written' = written + 1
    /\ UNCHANGED <<panic, unprivileged, sock, disk, config, gpu_controllers,
                   present, orphaned, req, response, saved, ops, assigned,
                   first_run, conn>>

\* bincode::deserialize fails: a line is printed and the connection dropped.
DecodeFailure ==
    /\ pc = "Reading"
    /\ pc' = "Listening"
    /\ UNCHANGED <<panic, unprivileged, sock, disk, config, gpu_controllers,
                   present, orphaned, req, response, saved, ops, written,
                   assigned, first_run, conn>>

\* stream.write_all(&bincode::serialize(&response).unwrap()).expect(..);
\* handle_connection returns, which drops the stream and the request.
Respond ==
    /\ pc = "Responding"
    /\ \/ /\ pc' = "Listening"
          /\ written' = written + 1
          /\ req' = NoRequest
          /\ response' = "None"
          /\ saved' = FALSE
          /\ ops' = {}
          /\ UNCHANGED <<panic, unprivileged, config, gpu_controllers, orphaned>>
       \/ Ends("Panicked", "write_all")
    /\ UNCHANGED <<sock, disk, present, assigned, first_run, conn>>

\* --------------------------------------------------------------- handlers

\* The handler's result for the action a(i, arg), after the controller
\* operations `done`, goes on to the response write.
Answer(a, i, arg, done, result) ==
    /\ req' = Request(a, i, arg)
    /\ ops' = ops \cup done
    /\ response' = result
    /\ pc' = "Responding"
    /\ UNCHANGED <<panic, unprivileged, written>>

\* NoneArm with a bug: the store is written although the handle is unknown.
NoneArm_Saving(a, i, arg) ==
    /\ Answer(a, i, arg, {}, "InvalidID")
    /\ disk' = SaveFile(config)
    /\ saved' = TRUE
    /\ UNCHANGED <<config, gpu_controllers>>

\* The None arm of gpu_controllers.get(&i): Err(DaemonError::InvalidID).
NoneArm(a, i, arg) ==
    /\ Answer(a, i, arg, {}, "InvalidID")
    /\ UNCHANGED <<config, disk, saved, gpu_controllers>>

\* ErrArm with a bug: the store is updated and saved as in the Ok(_) arm.
ErrArm_Persisting(a, i, arg, op, c, kind) ==
    /\ Answer(a, i, arg, {<<i, op>>}, kind)
    /\ gpu_controllers' = [gpu_controllers EXCEPT ![i] = c]
    /\ config' = [config EXCEPT !.gpu_configs = Insert(@, i, StoreEntry(c))]
    /\ disk' = SaveFile(config')
    /\ saved' = TRUE

\* The Err(_) arm of the controller operation op, which left the controller
\* as c: the handler's error kind.
ErrArm(a, i, arg, op, c, kind) ==
    /\ Answer(a, i, arg, {<<i, op>>}, kind)
    /\ gpu_controllers' = [gpu_controllers EXCEPT ![i] = c]
    /\ UNCHANGED <<config, disk, saved>>

\* OkArm with a bug: Ok(OK) is returned without config.save().
OkArm_NoSave(a, i, arg, op, c) ==
    /\ Answer(a, i, arg, {<<i, op>>}, "OK")
    /\ gpu_controllers' = [gpu_controllers EXCEPT ![i] = c]
    /\ config' = [config EXCEPT !.gpu_configs = Insert(@, i, StoreEntry(c))]
    /\ UNCHANGED <<disk, saved>>

\* The Ok(_) arm of the controller operation op, which left the controller
\* as c: insert (identifier, settings) into the store, save().unwrap(),
\* Ok(DaemonResponse::OK).
OkArm(a, i, arg, op, c) ==
    \/ /\ Answer(a, i, arg, {<<i, op>>}, "OK")
       /\ gpu_controllers' = [gpu_controllers EXCEPT ![i] = c]
       /\ config' = [config EXCEPT !.gpu_configs = Insert(@, i, StoreEntry(c))]
       /\ disk' = SaveFile(config')
       /\ saved' = TRUE
    \/ /\ Ends("Panicked", "save")
       /\ UNCHANGED disk

\* match self.gpu_controllers.get_mut(&i) { Some(controller) => match
\* controller.<op>(..) { Ok(_) => .., Err(_) => Err(kind) }, None => .. }
Mutation(a, i, arg, op, kind) ==
    /\ IF i \in DOMAIN gpu_controllers
       THEN \E out \in ControllerOp(gpu_controllers[i], op, arg) :
               IF out.ok THEN OkArm(a, i, arg, op, out.c)
                         ELSE ErrArm(a, i, arg, op, out.c, kind)
       ELSE NoneArm(a, i, arg)
    /\ UNCHANGED <<sock, present, orphaned, assigned, first_run, conn>>

\* Query with a bug: the store is saved after the controller was read.
Query_Saving(a, i, op, reply, mayFail) ==
    /\ IF i \in DOMAIN gpu_controllers
       THEN /\ \/ Answer(a, i, 0, {<<i, op>>}, reply)
               \/ mayFail /\ Answer(a, i, 0, {<<i, op>>}, "HWMonError")
            /\ disk' = SaveFile(config)
            /\ saved' = TRUE
            /\ UNCHANGED <<config, gpu_controllers>>
       ELSE NoneArm(a, i, 0)
    /\ UNCHANGED <<sock, present, orphaned, assigned, first_run, conn>>

\* match self.gpu_controllers.get(&i) { Some(controller) => match
\* controller.<get>() { Ok(x) => Ok(reply), Err(_) => Err(HWMonError) }, .. }
Query(a, i, op, reply, mayFail) ==
    /\ IF i \in DOMAIN gpu_controllers
       THEN /\ \/ Answer(a, i, 0, {<<i, op>>}, reply)
               \/ mayFail /\ Answer(a, i, 0, {<<i, op>>}, "HWMonError")
            /\ UNCHANGED <<config, disk, saved, gpu_controllers>>
       ELSE NoneArm(a, i, 0)
    /\ UNCHANGED <<sock, present, orphaned, assigned, first_run, conn>>

CheckAlive ==
    /\ pc = "Reading"
    /\ Answer("CheckAlive", 0, 0, {}, "OK")
    /\ UNCHANGED <<config, disk, saved, gpu_controllers>>
    /\ UNCHANGED <<sock, present, orphaned, assigned, first_run, conn>>

GetGpus ==
    /\ pc = "Reading"
    /\ Answer("GetGpus", 0, 0,
              {<<id, "get_info">> : id \in DOMAIN gpu_controllers}, "Gpus")
    /\ UNCHANGED <<config, disk, saved, gpu_controllers>>
    /\ UNCHANGED <<sock, present, orphaned, assigned, first_run, conn>>

GetConfig ==
    /\ pc = "Reading"
    /\ Answer("GetConfig", 0, 0, {}, "Config")
    /\ UNCHANGED <<config, disk, saved, gpu_controllers>>
    /\ UNCHANGED <<sock, present, orphaned, assigned, first_run, conn>>

GetStats(i) ==
    /\ pc = "Reading"
    /\ Query("GetStats", i, "get_stats", "GpuStats", TRUE)

GetInfo(i) ==
    /\ pc = "Reading"
    /\ Query("GetInfo", i, "get_info", "GpuInfo", FALSE)

GetFanControl(i) ==
    /\ pc = "Reading"
    /\ Query("GetFanControl", i, "get_fan_control", "FanControlInfo", TRUE)

GetPowerCap(i) ==
    /\ pc = "Reading"
    /\ Query("GetPowerCap", i, "get_power_cap", "PowerCap", TRUE)

StartFanControl(i) ==
    /\ pc = "Reading"
    /\ Mutation("StartFanControl", i, 0, "start_fan_control", "HWMonError")

StopFanControl(i) ==
    /\ pc = "Reading"
    /\ Mutation("StopFanControl", i, 0, "stop_fan_control", "HWMonError")

SetFanCurve(i, curve) ==
    /\ pc = "Reading"
    /\ Mutation("SetFanCurve", i, curve, "set_fan_curve", "HWMonError")

SetPowerCap(i, cap) ==
    /\ pc = "Reading"
    /\ Mutation("SetPowerCap", i, cap, "set_power_cap", "HWMonError")

SetPowerProfile(i, profile) ==
    /\ pc = "Reading"
    /\ Mutation("SetPowerProfile", i, profile, "set_power_profile",
       "ControllerError")

SetGPUMaxPowerState(i, clockspeed) ==
    /\ pc = "Reading"
    /\ Mutation("SetGPUMaxPowerState", i, clockspeed,
       "set_gpu_max_power_state", "ControllerError")

SetVRAMMaxClock(i, clockspeed) ==
    /\ pc = "Reading"
    /\ Mutation("SetVRAMMaxClock", i, clockspeed,
       "set_vram_max_clockspeed", "ControllerError")

CommitGPUPowerStates(i) ==
    /\ pc = "Reading"
    /\ Mutation("CommitGPUPowerStates", i, 0, "commit_gpu_power_states",
       "ControllerError")

ResetGPUPowerStates(i) ==
    /\ pc = "Reading"
    /\ Mutation("ResetGPUPowerStates", i, 0, "reset_gpu_power_states",
       "ControllerError")

\* ----------------------------------------------------------------- Shutdown

\* The controllers the Shutdown loop has already gone through.
Visited == {id \in DOMAIN gpu_controllers : <<id, "reset_gpu_power_states">> \in ops}

\* reset_gpu_power_states(); commit_gpu_power_states();
\* set_power_profile(PowerProfile::Auto): each result is dropped unread.
ResetSteps(c) ==
    LET r1 == {o.c : o \in reset_gpu_power_states(c)}
        r2 == UNION {{o.c : o \in commit_gpu_power_states(x)} : x \in r1}
    IN  UNION {{o.c : o \in set_power_profile(x, "Auto")} : x \in r2}

ResetOps(id) ==
    {<<id, "reset_gpu_power_states">>, <<id, "commit_gpu_power_states">>,
     <<id, "set_power_profile">>}

\* Action::Shutdown is decoded: the loop over &mut self.gpu_controllers starts.
Shutdown ==
    /\ pc = "Reading"
    /\ pc' = "ShuttingDown"
    /\ req' = Request("Shutdown", 0, 0)
    /\ UNCHANGED <<panic, unprivileged, sock, disk, config, gpu_controllers,
                   present, orphaned, response, saved, ops, written, assigned, first_run, conn>>

\* ShutdownIteration with a bug: the reset controller's settings are put
\* into the store and saved, as the mutating handlers do.
ShutdownIteration_Saving ==
    /\ pc = "ShuttingDown"
    /\ \E id \in (DOMAIN gpu_controllers) \ Visited :
       \E c \in ResetSteps(gpu_controllers[id]) :
          IF id \notin DOMAIN config.gpu_configs
          THEN Ends("Panicked", "unwrap") /\ UNCHANGED <<sock, disk>>
          ELSE IF ~sock
          THEN Ends("Panicked", "remove_file") /\ UNCHANGED <<sock, disk>>
          ELSE /\ sock' = FALSE
               /\ IF config.gpu_configs[id].cfg.fan_control_enabled
                  THEN \E o \in stop_fan_control(c) :
                       /\ gpu_controllers' = [gpu_controllers EXCEPT ![id] = o.c]
                       /\ ops' = ops \cup ResetOps(id) \cup {<<id, "stop_fan_control">>}
                  ELSE /\ gpu_controllers' = [gpu_controllers EXCEPT ![id] = c]
                       /\ ops' = ops \cup ResetOps(id)
               /\ config' = [config EXCEPT !.gpu_configs =
                                Insert(@, id, StoreEntry(gpu_controllers'[id]))]
               /\ disk' = SaveFile(config')
               /\ UNCHANGED <<pc, panic, unprivileged, orphaned, req,
                              response, saved, written>>
    /\ UNCHANGED <<present, assigned, first_run, conn>>

\* One iteration of the loop, for a controller the HashMap yields next: the
\* reset steps, the store lookup (unwrap), stop_fan_control if the store has
\* fan control enabled, then fs::remove_file(SOCK_PATH).expect(..).
ShutdownIteration ==
    /\ pc = "ShuttingDown"
    /\ \E id \in (DOMAIN gpu_controllers) \ Visited :
       \E c \in ResetSteps(gpu_controllers[id]) :
          IF id \notin DOMAIN config.gpu_configs
          THEN Ends("Panicked", "unwrap") /\ UNCHANGED sock
          ELSE IF ~sock
          THEN Ends("Panicked", "remove_file") /\ UNCHANGED sock
          ELSE /\ sock' = FALSE
               /\ IF config.gpu_configs[id].cfg.fan_control_enabled
                  THEN \E o \in stop_fan_control(c) :
                       /\ gpu_controllers' = [gpu_controllers EXCEPT ![id] = o.c]
                       /\ ops' = ops \cup ResetOps(id) \cup {<<id, "stop_fan_control">>}
                  ELSE /\ gpu_controllers' = [gpu_controllers EXCEPT ![id] = c]
                       /\ ops' = ops \cup ResetOps(id)
               /\ UNCHANGED <<pc, panic, unprivileged, config, orphaned, req,
                              response, saved, written>>
    /\ UNCHANGED <<disk, present, assigned, first_run, conn>>

\* The loop is over: std::process::exit(0).
ShutdownExit ==
    /\ pc = "ShuttingDown"
    /\ Visited = DOMAIN gpu_controllers
    /\ Ends("Exited", "none")
    /\ UNCHANGED <<sock, disk, present, assigned, first_run, conn>>

\* ---------------------------------------------------------------- SetConfig

\* self.gpu_controllers.clear(): the controllers are dropped without
\* stop_fan_control; the cards whose fan-control loop keeps running.
DroppedLoops(ctrls) == {ctrls[h].id : h \in {x \in DOMAIN ctrls : ctrls[x].fan_running}}

\* The settings a client sends in a SetConfig.
ClientSettings == {DefaultGpuConfig}

\* The stores a client sends in a SetConfig.
ClientConfigs ==
    {[gpu_configs |-> m] :
        m \in UNION {[S -> [id : Devices, cfg : ClientSettings]] : S \in SUBSET Handles}}

\* self.config = config; clear(); load_gpu_controllers(&mut self.config);
\* save().expect(..); Ok(OK)
Replace(c) ==
    /\ pc = "Reading"
    /\ \E out \in load_gpu_controllers(c, present) :
        \/ /\ Answer("SetConfig", 0, 0, {}, "OK")
           /\ orphaned' = orphaned \cup DroppedLoops(gpu_controllers)
           /\ config' = out.config
           /\ gpu_controllers' = out.ctrls
           /\ disk' = SaveFile(out.config)
           /\ saved' = TRUE
        \/ /\ Ends("Panicked", "save")
           /\ UNCHANGED disk
    /\ UNCHANGED <<sock, present, first_run, conn>>

SetConfig(c) ==
    /\ Replace(c)
    /\ UNCHANGED assigned

\* ------------------------------------------------------------ specification

\* What the requests carry: a cap inside or outside the hardware range, a
\* curve with or without points, a supported or an unsupported profile, and a
\* clock to stage (0: the stock clock, which the settings also hold when
\* nothing is staged).
Caps == 0 .. MaxCap
Curves == {"default", "empty"}
Profiles == {"Auto", "Unsupported"}
ClockSpeeds == {0}

Next ==
    \/ \E unpriv \in BOOLEAN, cards \in SUBSET Devices : DaemonNew(unpriv, cards)
    \/ Accept
    \/ AcceptError
    \/ ReadError
    \/ DecodeFailure
    \/ Respond
    \/ CheckAlive
    \/ GetGpus
    \/ GetConfig
    \/ \E c \in ClientConfigs : SetConfig(c)
    \/ \E i \in Handles : GetStats(i)
    \/ \E i \in Handles : GetInfo(i)
    \/ \E i \in Handles : GetFanControl(i)
    \/ \E i \in Handles : GetPowerCap(i)
    \/ \E i \in Handles : StartFanControl(i)
    \/ \E i \in Handles : StopFanControl(i)
    \/ \E i \in Handles, curve \in Curves : SetFanCurve(i, curve)
    \/ \E i \in Handles, cap \in Caps : SetPowerCap(i, cap)
    \/ \E i \in Handles, profile \in Profiles : SetPowerProfile(i, profile)
    \/ \E i \in Handles, clockspeed \in ClockSpeeds : SetGPUMaxPowerState(i, clockspeed)
    \/ \E i \in Handles, clockspeed \in ClockSpeeds : SetVRAMMaxClock(i, clockspeed)
    \/ \E i \in Handles : CommitGPUPowerStates(i)
    \/ \E i \in Handles : ResetGPUPowerStates(i)
    \/ Shutdown
    \/ ShutdownIteration
    \/ ShutdownExit

Spec == Init /\ [][Next]_vars

\* ------------------------------------------------- handles over restarts

\* Daemon::new and SetConfig with the history of first handles recorded.
DaemonNewRecorded(unpriv, cards) ==
    /\ Startup(unpriv, cards)
    /\ assigned' = IF pc' = "Listening" THEN Assign(gpu_controllers') ELSE assigned

SetConfigRecorded(c) ==
    /\ Replace(c)
    /\ assigned' = IF pc' = "Responding" THEN Assign(gpu_controllers') ELSE assigned

\* The daemon started privileged again and again, with SetConfig requests
\* in between.
NextHandles ==
    \/ \E cards \in SUBSET Devices : DaemonNewRecorded(FALSE, cards)
    \/ Accept
    \/ AcceptError
    \/ \E c \in ClientConfigs : SetConfigRecorded(c)
    \/ Respond

SpecHandles == Init /\ [][NextHandles]_vars

\* ------------------------------------------------ reconciliation run twice

\* Any store and any cards, before a first run of load_gpu_controllers.
InitRecon ==
    /\ pc = "Unreconciled"
    /\ panic = "none"
    /\ unprivileged = FALSE
    /\ sock = FALSE
    /\ disk = [exists |-> FALSE, gpu_configs |-> EmptyMap]
    /\ config \in ClientConfigs
    /\ gpu_controllers = EmptyMap
    /\ present \in SUBSET Devices
    /\ orphaned = {}
    /\ req = NoRequest
    /\ response = "None"
    /\ saved = FALSE
    /\ ops = {}
    /\ written = 0
    /\ assigned = [d \in Devices |-> 0]
    /\ first_run = NoRun
    /\ conn = NoConn

\* gpu_controllers = Self::load_gpu_controllers(&mut config)
Reconcile(from, to) ==
    /\ pc = from
    /\ pc' = to
    /\ \E out \in load_gpu_controllers(config, present) :
        /\ config' = out.config
        /\ gpu_controllers' = out.ctrls
        /\ first_run' = IF from = "Unreconciled"
                        THEN [input |-> config, config |-> out.config,
                              ctrls |-> out.ctrls]
                        ELSE first_run
    /\ UNCHANGED <<panic, unprivileged, sock, disk, present, orphaned, req,
                   response, saved, ops, written, assigned, conn>>

ReconcileFirst ==
    /\ pc = "Unreconciled"
    /\ Reconcile("Unreconciled", "Reconciled")

ReconcileAgain ==
    /\ pc = "Reconciled"
    /\ Reconcile("Reconciled", "ReconciledTwice")

NextRecon == ReconcileFirst \/ ReconcileAgain

SpecRecon == InitRecon /\ [][NextRecon]_vars

\* ------------------------------------------------ one connection at a time

\* A client connects to SOCK_PATH: its connection waits until
\* listener.incoming() yields it.
ClientConnects ==
    /\ pc \notin Terminated \cup {"Off"}
    /\ conn.waiting < MaxClients
    /\ conn' = [conn EXCEPT !.waiting = @ + 1]
    /\ UNCHANGED <<pc, panic, unprivileged, sock, disk, config, gpu_controllers,
                   present, orphaned, req, response, saved, ops, written,
                   assigned, first_run>>

\* The client of the accepted connection closes its sending side.
ClientCloses ==
    /\ pc = "Reading"
    /\ ~conn.eof
    /\ conn' = [conn EXCEPT !.eof = TRUE]
    /\ UNCHANGED <<pc, panic, unprivileged, sock, disk, config, gpu_controllers,
                   present, orphaned, req, response, saved, ops, written,
                   assigned, first_run>>

\* for stream in listener.incoming(): the next waiting connection, whose
\* client has sent or not sent, and has not closed yet.
AcceptWaiting ==
    /\ Incoming
    /\ conn.waiting > 0
    /\ conn' = [waiting |-> conn.waiting - 1, eof |-> FALSE]

\* read_to_end with a bug: it returns with what has arrived so far.
read_to_end_Partial == TRUE

\* stream.read_to_end(&mut buffer) returns Ok once the stream is at its end.
read_to_end == conn.eof

\* One run of the daemon, privileged.
DaemonStart(cards) ==
    /\ pc = "Off"
    /\ DaemonNew(FALSE, cards)

\* The payload read to its end is decoded and handled.
ReadCheckAlive ==
    /\ read_to_end
    /\ CheckAlive

ReadStartFanControl(i) ==
    /\ read_to_end
    /\ StartFanControl(i)

ReadShutdown ==
    /\ read_to_end
    /\ Shutdown

ReadDecodeFailure ==
    /\ read_to_end
    /\ DecodeFailure

NextConn ==
    \/ \E cards \in SUBSET Devices : DaemonStart(cards)
    \/ ClientConnects
    \/ AcceptWaiting
    \/ AcceptError
    \/ ClientCloses
    \/ ReadError
    \/ ReadCheckAlive
    \/ \E i \in Handles : ReadStartFanControl(i)
    \/ ReadShutdown
    \/ ReadDecodeFailure
    \/ Respond
    \/ ShutdownIteration
    \/ ShutdownExit

SpecConn == Init /\ [][NextConn]_vars

\* ------------------------------------------------------------------ claims

MutatingActions ==
    {"StartFanControl", "StopFanControl", "SetFanCurve", "SetPowerCap",
     "SetPowerProfile", "SetGPUMaxPowerState", "SetVRAMMaxClock",
     "CommitGPUPowerStates", "ResetGPUPowerStates"}

QueryActions == {"GetInfo", "GetStats", "GetFanControl", "GetPowerCap"}

PerDeviceActions == MutatingActions \cup QueryActions

\* C1: whenever an OK response to a mutating action (the nine per-device
\* mutations and SetConfig) is about to be written, config.save() has
\* succeeded during this request, the file holds the whole in-memory store
\* and, for a per-device mutation, the store entry of the handle is the
\* controller's current (identifier, settings).
C1_SavedBeforeOK ==
    (pc = "Responding" /\ response = "OK"
        /\ req.a \in MutatingActions \cup {"SetConfig"})
    => /\ saved
       /\ disk = SaveFile(config)
       /\ req.a \in MutatingActions
          => /\ req.i \in DOMAIN gpu_controllers
             /\ req.i \in DOMAIN config.gpu_configs
             /\ config.gpu_configs[req.i] = StoreEntry(gpu_controllers[req.i])

\* A SetPowerCap that changed the cap is answered OK.
C1_Witness ==
    /\ pc = "Responding"
    /\ response = "OK"
    /\ req.a = "SetPowerCap"
    /\ gpu_controllers[req.i].config.power_cap = PowerCapMin
    /\ disk.gpu_configs[req.i].cfg.power_cap = PowerCapMin

\* C2: a per-device action whose handle is not a key of the controller map
\* is answered InvalidID, whatever the action; no controller operation is
\* invoked, the controller map, the in-memory store and the file are left as
\* they were, and nothing is saved.
C2_InvalidID ==
    [][(pc = "Reading" /\ pc' = "Responding"
            /\ req'.a \in PerDeviceActions
            /\ req'.i \notin DOMAIN gpu_controllers)
        => /\ response' = "InvalidID"
           /\ ops' = {}
           /\ ~saved'
           /\ config' = config
           /\ disk' = disk
           /\ gpu_controllers' = gpu_controllers]_vars

\* A mutation and a query of an unknown handle are both answered.
C2_Witness ==
    /\ pc = "Responding"
    /\ req.a \in MutatingActions
    /\ req.i \notin DOMAIN gpu_controllers
    /\ gpu_controllers # EmptyMap
    /\ response = "InvalidID"

\* C3: a card is registered in the controller map under the handle it was
\* first registered under, over any privileged restarts and SetConfig
\* requests (the configuration file is never deleted).
C3_HandleNeverChanges ==
    \A d \in Devices : HandleOf(gpu_controllers, d) \in {0, assigned[d]}

\* C4: a second run of load_gpu_controllers on the store the first run
\* produced, with the same cards, leaves the store as it is and registers
\* every card under the handle of the first run.
C4_Idempotent ==
    pc = "ReconciledTwice"
    => /\ config = first_run.config
       /\ \A d \in present :
            HandleOf(gpu_controllers, d) = HandleOf(first_run.ctrls, d)

\* C5: while a Shutdown is handled, SOCK_PATH is removed only once every
\* live controller has been through its restore steps.
C5_RestoreBeforeRemove ==
    (pc = "ShuttingDown" /\ ~sock) => Visited = DOMAIN gpu_controllers

\* C6: a Shutdown is never aborted by a failed call, and when the process
\* has exited through std::process::exit the socket is removed.
C6_ShutdownCompletes ==
    /\ panic \notin {"remove_file", "unwrap"}
    /\ pc = "Exited" => ~sock

\* C7: on whatever path the running process ends, every live controller has
\* been through the restore steps of the shutdown sequence before.
C7_RestoredBeforeExit ==
    [][(pc \notin Terminated \cup {"Off"} /\ pc' \in Terminated)
        => Visited = DOMAIN gpu_controllers]_vars

\* C8: a SetPowerCap on an existing handle with a cap outside the hardware
\* range is answered with ControllerError.
C8_OutOfRangeIsControllerError ==
    (pc = "Responding" /\ req.a = "SetPowerCap"
        /\ req.i \in DOMAIN gpu_controllers
        /\ (req.arg < PowerCapMin \/ req.arg > PowerCapMax))
    => response = "ControllerError"

\* The requests whose controller operation is bound to fail.
Rejected(r) ==
    \/ r.a = "SetPowerCap" /\ (r.arg < PowerCapMin \/ r.arg > PowerCapMax)
    \/ r.a = "SetFanCurve" /\ r.arg \notin FanCurves
    \/ r.a = "SetPowerProfile" /\ r.arg \notin PowerProfiles

\* C9: a mutating per-device action on an existing handle whose controller
\* operation fails is answered with an error, and a mutating action that is
\* answered with an error has left the in-memory store and the file as they
\* were and has saved nothing.
C9_FailedMutation ==
    [][(pc = "Reading" /\ pc' = "Responding"
            /\ req'.a \in MutatingActions
            /\ req'.i \in DOMAIN gpu_controllers)
        => /\ Rejected(req') => response' \in {"HWMonError", "ControllerError"}
           /\ response' # "OK"
              => /\ response' \in {"HWMonError", "ControllerError"}
                 /\ config' = config
                 /\ disk' = disk
                 /\ ~saved']_vars

\* A SetPowerCap above the hardware maximum is answered with an error while
\* the file holds the store.
C9_Witness ==
    /\ pc = "Responding"
    /\ req.a = "SetPowerCap"
    /\ req.i \in DOMAIN gpu_controllers
    /\ req.arg > PowerCapMax
    /\ response = "HWMonError"
    /\ disk = SaveFile(config)

\* C10: no fan-control loop of a controller that SetConfig discarded is
\* still running.
C10_NoOrphanedLoop == orphaned = {}

\* C11: after Daemon::new has reconciled, every card found in /sys/class/drm
\* has a controller of its own: the controller map has as many entries as
\* there are cards (no drawn handle fell on a handle already in use).
C11_OneControllerPerCard ==
    pc = "Listening" => Cardinality(DOMAIN gpu_controllers) = Cardinality(present)

\* C12: a decoded Shutdown request, like every other decoded request, has
\* had its one response written on the connection when its handling is over:
\* the process does not exit from the Shutdown handler with nothing written.
C12_ShutdownAnswered ==
    [][(pc = "ShuttingDown" /\ pc' = "Exited") => written = 1]_vars

\* C13: when the payload does not decode (the daemon goes from reading back
\* to listening without a handler having run), nothing has been written on
\* the connection, no controller operation has been invoked, and the
\* controller map, the in-memory store and the file are as they were.
C13_DecodeFailure ==
    [][(pc = "Reading" /\ pc' = "Listening")
        => /\ written' = 0
           /\ ops' = {}
           /\ ~saved'
           /\ gpu_controllers' = gpu_controllers
           /\ config' = config
           /\ disk' = disk]_vars

\* The daemon listens again after a payload that did not decode: no response
\* has been written since the accept (Respond counts one) and nothing saved
\* (a privileged start saves), with a controller and the file in place.
C13_Witness ==
    /\ pc = "Listening"
    /\ written = 0
    /\ ~saved
    /\ ~unprivileged
    /\ gpu_controllers # EmptyMap
    /\ disk = SaveFile(config)

\* C14: a daemon started unprivileged does not write the store that a
\* reconciliation produced to the file, neither at its start nor when a
\* SetConfig request has reconciled again.
C14_UnprivilegedNeverSaves ==
    [][(/\ unprivileged'
        /\ \/ pc \in {"Off"} \cup Terminated
           \/ pc = "Reading" /\ req'.a = "SetConfig")
        => disk' = disk]_vars

\* C15: when config.save() fails in the handler of a mutating request whose
\* controller operation succeeded, the request still goes to the response
\* write, with an error as its response.
C15_SaveFailureAnswered ==
    [][(pc = "Reading" /\ panic' = "save")
        => /\ pc' = "Responding"
           /\ response' \in {"HWMonError", "ControllerError"}]_vars

\* C16: whenever the daemon listens, the store holds for every handle of the
\* controller map the identifier and the settings that the controller
\* registered under that handle reports.
C16_StoreMatchesControllers ==
    pc = "Listening"
    => \A h \in DOMAIN gpu_controllers :
          /\ h \in DOMAIN config.gpu_configs
          /\ config.gpu_configs[h].id = gpu_controllers[h].id
          /\ config.gpu_configs[h].cfg = gpu_controllers[h].config

\* The daemon listens after a request was answered, with a controller whose
\* power cap and fan control are no longer the defaults.
C16_Witness ==
    /\ pc = "Listening"
    /\ written = 1
    /\ \E h \in DOMAIN gpu_controllers :
          /\ gpu_controllers[h].config.power_cap = PowerCapMin
          /\ gpu_controllers[h].config.fan_control_enabled

\* C17: while the daemon runs, every handle of the controller map is a
\* handle of the store, and the store lookup that Shutdown makes for each
\* controller never fails.
C17_ControllersInStore ==
    /\ panic # "unwrap"
    /\ pc \notin Terminated \cup {"Off"}
       => DOMAIN gpu_controllers \subseteq DOMAIN config.gpu_configs

\* A Shutdown with two controllers has looked up the store entry of one,
\* found fan control enabled there and called stop_fan_control.
C17_Witness ==
    /\ pc = "ShuttingDown"
    /\ \E id \in Visited : <<id, "stop_fan_control">> \in ops
    /\ Cardinality(DOMAIN gpu_controllers) = 2

C19_ShutdownKeepsStore ==
    [][(pc = "ShuttingDown" \/ pc' = "ShuttingDown")
        => /\ disk' = disk
           /\ ~saved'
           /\ pc' = "ShuttingDown" => config' = config]_vars

\* A Shutdown has stopped the fan control of a controller while the store and
\* the file still have fan control enabled for it.
C19_Witness ==
    /\ pc = "ShuttingDown"
    /\ disk = SaveFile(config)
    /\ \E id \in Visited :
          /\ config.gpu_configs[id].cfg.fan_control_enabled
          /\ ~gpu_controllers[id].config.fan_control_enabled
          /\ ~gpu_controllers[id].fan_running

ReadOnlyActions == QueryActions \cup {"CheckAlive", "GetGpus", "GetConfig"}

\* C20: the handler of a read-only action, whatever it answers, leaves the
\* handles of the controller map and the in-memory store as they were and
\* does not write the file; it always gets to the response write.
C20_ReadOnly ==
    [][(pc = "Reading" /\ req'.a \in ReadOnlyActions)
        => /\ pc' = "Responding"
           /\ DOMAIN gpu_controllers' = DOMAIN gpu_controllers
           /\ config' = config
           /\ disk' = disk
           /\ ~saved']_vars

\* A GetPowerCap on an existing handle is answered with an error, with the
\* store of two controllers in the file.
C20_Witness ==
    /\ pc = "Responding"
    /\ req.a = "GetPowerCap"
    /\ req.i \in DOMAIN gpu_controllers
    /\ response = "HWMonError"
    /\ Cardinality(DOMAIN gpu_controllers) = 2
    /\ disk = SaveFile(config)

\* C21: a connection is accepted only while the daemon listens, and while
\* the client of the accepted connection has not closed its sending side the
\* daemon stays in read_to_end (or dies of a read error): no waiting
\* connection is accepted, nothing is decoded, no controller operation is
\* invoked, nothing is written back and the store is not touched.
C21_OneConnectionAtATime ==
    [][/\ conn'.waiting < conn.waiting => (pc = "Listening" /\ pc' = "Reading")
       /\ (pc = "Reading" /\ ~conn.eof)
          => /\ conn'.waiting >= conn.waiting
             /\ pc' \in {"Reading", "Panicked"}
             /\ pc' = "Reading"
                => /\ req'.a = "None"
                   /\ ops' = ops
                   /\ written' = written
                   /\ config' = config
                   /\ gpu_controllers' = gpu_controllers
                   /\ disk' = disk]_vars

\* The daemon is in read_to_end on a connection whose client has not closed
\* its sending side, with controllers, while another client waits.
C21_Witness ==
    /\ pc = "Reading"
    /\ ~conn.eof
    /\ conn.waiting > 0
    /\ gpu_controllers # EmptyMap

====
